---- MODULE Spec2Model ----
(***************************************************************************)
(* Model of the download orchestration core of manget:                    *)
(*   - the batch downloader  (manget/src/download.rs: download,           *)
(*     download_chunk, download_one_url, DownloadOptions), and            *)
(*   - the chapter orchestrator with its single retry pass                *)
(*     (src/manga.rs: download_chapter).                                  *)
(* One behaviour of Spec is one call of download_chapter for one chapter.  *)
(* The environment (HTTP server, file system) chooses, for each fetch,    *)
(* the stage of download_one_url at which the fetch ends.                 *)
(* Further specifications follow the parts around it:                     *)
(*   SpecFetch   one fetch unit and the name it saves under,              *)
(*   SpecResolve get_chapter and the site adapters,                       *)
(*   SpecCbz     download_one, download_chapter, download_chapter_as_cbz, *)
(*   SpecBatch   the CLI batch loop,                                      *)
(*   SpecNames   the default archive path,                                *)
(*   SpecServer  two concurrent requests of the server.                   *)
(***************************************************************************)
EXTENDS Integers, Sequences, FiniteSets, Bags, TLC

\* ---------------------------------------------------------------- bounds
MaxPages == 3
MaxLimit == 2

\* ------------------------------------------------------- generic helpers
None == <<>>
Some(v) == <<v>>

Range(s) == {s[i] : i \in 1..Len(s)}

Min(a, b) == IF a < b THEN a ELSE b

CeilDiv(a, b) == (a + b - 1) \div b

\* ------------------------------------------------------------- the items
\* DownloadItem { url, name }.  The URL of page i is the number i.
DownloadItem(url, name) == [url |-> url, name |-> name]

\* DownloadSpeedLimit { num_items, duration }: the duration only sets the
\* length of a sleep, which the model counts but does not measure.
DownloadSpeedLimit(n) == [num_items |-> n]

\* The chapters the model explores: 0..MaxPages pages, every page with an
\* explicit file name or every page without one, and an optional speed limit.
Pages(n, named) ==
  [i \in 1..n |-> DownloadItem(i, IF named THEN Some(<<"page", i>>) ELSE None)]

Chapters ==
  {[pages |-> Pages(n, named), server_speed_limit |-> l] :
     n \in 0..MaxPages, named \in BOOLEAN,
     l \in {None} \cup {Some(DownloadSpeedLimit(k)) : k \in 0..MaxLimit}}

\* ------------------------------------------------------ DownloadOptions
DownloadOptionsNew == [items |-> <<>>, limit_speed |-> None, path |-> None]

set_path(options, path) == [options EXCEPT !.path = Some(path)]

set_limit_speed(options, limit) == [options EXCEPT !.limit_speed = Some(limit)]

add_download_items(options, items) ==
  [options EXCEPT !.items = options.items \o items]

clear_download_items_keep(options) == options

clear_download_items_all(options) ==
  [options EXCEPT !.items = <<>>, !.limit_speed = None]

clear_download_items(options) == [options EXCEPT !.items = <<>>]

\* ----------------------------------------------------- download_one_url
\* The stage at which one fetch ends:
\*   "request": reqwest::get or error_for_status fails   -> RequestError
\*   "create" : File::create fails                       -> IoError
\*   "body"   : response.bytes() fails (file was created)-> RequestError
\*   "copy"   : io::copy fails (file partly written)     -> IoError
\*   "ok"     : the file is written                      -> Ok(file_path)
\* DownloadError::InvalidUrl cannot arise here: the URL is parsed only after
\* reqwest::get succeeded on it, so it parses and has path segments.
Stages == {"request", "create", "body", "copy", "ok"}

\* provided file name or inferred from url (its last path segment)
file_name(item) ==
  IF item.name # None THEN item.name[1] ELSE <<"segment", item.url>>

\* A Result<PathBuf, DownloadError>.  "fetched" is a history field: the URL
\* of the descriptor whose fetch produced the value.
Pending == [kind |-> "Pending", item |-> None, path |-> None, fetched |-> None]

download_one_url(item, stage) ==
  CASE stage \in {"request", "body"} ->
         [kind |-> "RequestError", item |-> Some(item), path |-> None,
          fetched |-> Some(item.url)]
    [] stage \in {"create", "copy"} ->
         [kind |-> "IoError", item |-> None, path |-> None,
          fetched |-> Some(item.url)]
    [] OTHER ->
         [kind |-> "Ok", item |-> None, path |-> Some(file_name(item)),
          fetched |-> Some(item.url)]

\* What the fetch leaves at its file path in the destination directory.
FileAfter(old, stage) ==
  CASE stage = "body" -> "empty"
    [] stage = "copy" -> "partial"
    [] stage = "ok" -> "complete"
    [] OTHER -> old

\* The log line of a completed fetch: info!("Downloaded: {url} -> {path}") or
\* error!("{e}"), as a bag of one event.
log_event_ok_only(item, r) ==
  IF r.kind = "Ok"
    THEN SetToBag({[level |-> "info", url |-> item.url, path |-> r.path,
                    error |-> ""]})
    ELSE EmptyBag

log_event(item, r) ==
  IF r.kind = "Ok"
    THEN SetToBag({[level |-> "info", url |-> item.url, path |-> r.path,
                    error |-> ""]})
    ELSE SetToBag({[level |-> "error", url |-> item.url, path |-> None,
                    error |-> r.kind]})

\* --------------------------------------------------------- the batch run
\* slice::chunks(n): consecutive chunks of n items, the last possibly shorter.
RECURSIVE chunks(_, _)
chunks_wide(items, n) ==
  IF items = <<>> THEN <<>>
  ELSE <<SubSeq(items, 1, Min(n + 1, Len(items)))>>
         \o chunks(SubSeq(items, Min(n + 1, Len(items)) + 1, Len(items)), n)

chunks(items, n) ==
  IF items = <<>> THEN <<>>
  ELSE <<SubSeq(items, 1, Min(n, Len(items)))>>
         \o chunks(SubSeq(items, Min(n, Len(items)) + 1, Len(items)), n)

\* join_all: the result of the future at index i goes to index i of the
\* output, whenever it completes.
join_all_place_first_free(sub, i, r) ==
  LET free == {j \in 1..Len(sub) : sub[j].kind = "Pending"}
      k == CHOOSE j \in free : \A j2 \in free : j <= j2
  IN  [sub EXCEPT ![k] = r]

join_all_place(sub, i, r) == [sub EXCEPT ![i] = r]

\* join_all completes when every future of the chunk has completed.
join_all_ready_any(sub) ==
  sub = <<>> \/ \E i \in 1..Len(sub) : sub[i].kind # "Pending"

join_all_ready(sub) == \A i \in 1..Len(sub) : sub[i].kind # "Pending"

\* chunks.peek().is_some()
peek_is_some_always(rest) == TRUE

peek_is_some(rest) == rest # <<>>

\* ------------------------------------------------------ download_chapter
\* The items of the retryable failures of a pass, in result order.
RECURSIVE failed_items_of(_)
failed_items_none(results) == <<>>

failed_items_of(results) ==
  IF results = <<>> THEN <<>>
  ELSE (IF Head(results).kind = "RequestError"
          THEN <<Head(results).item[1]>> ELSE <<>>)
         \o failed_items_of(Tail(results))

\* The errors of a pass, in result order.
RECURSIVE sources_of(_)
sources_of_none(results) == <<>>

sources_of(results) ==
  IF results = <<>> THEN <<>>
  ELSE (IF Head(results).kind # "Ok" THEN <<Head(results)>> ELSE <<>>)
         \o sources_of(Tail(results))

NoResult == [kind |-> "None", sources |-> <<>>]
OkResult == [kind |-> "Ok", sources |-> <<>>]
PathError == [kind |-> "PathError", sources |-> <<>>]
PagesDownloadError(sources) == [kind |-> "PagesDownloadError", sources |-> sources]

\* ------------------------------------------------------------- the state
VARIABLES
  chapter,       \* the resolved chapter: pages and server_speed_limit
  options,       \* the DownloadOptions of this call
  pc,            \* position in download_chapter
  pass,          \* number of calls of download made so far
  failed_items,  \* download_chapter: the items to retry
  results1,      \* what the first call of download returned
  results2,      \* what the second call of download returned
  result,        \* what download_chapter returned
  dpc,           \* position in download
  rest,          \* download: the chunks not yet taken from the iterator
  chunk,         \* download_chunk: the items of the running chunk
  offset,        \* number of items of options.items in earlier chunks
  subdownloads,  \* download_chunk: the output of join_all, filled by index
  inflight,      \* positions in options.items whose fetch is running
  downloads,     \* download: the outcomes collected so far
  sleeps,        \* number of rate-limit sleeps of the current call of download
  started,       \* positions whose fetch was started in the current call
  completed,     \* positions whose fetch has completed in the current call
  fetched,       \* per pass, the items whose fetch was started, in order
  files,         \* the destination directory: file name -> state of the file
  url,           \* download_one: the chapter URL of the request
  site,          \* what the site answers to the adapter's request
  cbz,           \* download_one: whether an archive is asked for
  cpc,           \* position in download_one
  cresult,       \* what download_one returned
  dirs,          \* the directories that exist
  archive,       \* the file at the archive path
  calls,         \* number of calls of download_chapter that have returned
  files1,        \* the destination directory when the first call returned
  requests,      \* number of network requests made while resolving
  unit,          \* one fetch unit working through the URLs of a descriptor
  log,           \* the log events written so far, a bag
  batch,         \* the CLI batch run over the URLs of a file
  names,         \* two chapters and the default archive paths they get
  server         \* the server: its requests in progress and its file system

vars == <<chapter, options, pc, pass, failed_items, results1, results2, result,
          dpc, rest, chunk, offset, subdownloads, inflight, downloads, sleeps,
          started, completed, fetched, files,
          url, site, cbz, cpc, cresult, dirs, archive, calls, files1,
          requests, unit, log, batch, names, server>>

callerVars == <<url, site, cbz, cpc, cresult, dirs, archive, calls, files1,
                requests>>

newVars == <<batch, names, server>>

extVars == <<callerVars, unit, log, newVars>>

chapterVars == <<chapter, options, pc, pass, failed_items, results1, results2,
                 result>>

FileNames(ch) == {file_name(it) : it \in Range(ch.pages)}

NoUrl == [wellformed |-> FALSE, host |-> None, chapter_id |-> FALSE]

NoSite ==
  [reachable |-> FALSE, title |-> "absent", list |-> FALSE, imgs |-> <<>>]

NoArchive == [exists |-> FALSE, finished |-> FALSE, entries |-> {}]

NoUnit == [phase |-> "none"]

\* The caller's state while download_chapter is called on its own.
CallerIdle ==
  /\ url = NoUrl
  /\ site = NoSite
  /\ cbz = FALSE
  /\ cpc = "none"
  /\ cresult = NoResult
  /\ dirs = {}
  /\ archive = NoArchive
  /\ calls = 0
  /\ files1 = <<>>
  /\ requests = 0

NoBatch == [pc |-> "none"]

NoNames == [pc |-> "none"]

NoServer == [pc |-> "none"]

\* Nothing is logged yet, and the parts of the program that are looked at on
\* their own are not running.
AuxIdle ==
  /\ log = EmptyBag
  /\ batch = NoBatch
  /\ names = NoNames
  /\ server = NoServer

Init ==
  /\ chapter \in Chapters
  /\ CallerIdle
  /\ unit = NoUnit
  /\ AuxIdle
  /\ options = DownloadOptionsNew
  /\ pc = "start"
  /\ pass = 0
  /\ failed_items = <<>>
  /\ results1 = <<>>
  /\ results2 = <<>>
  /\ result = NoResult
  /\ dpc = "idle"
  /\ rest = <<>>
  /\ chunk = <<>>
  /\ offset = 0
  /\ subdownloads = <<>>
  /\ inflight = {}
  /\ downloads = <<>>
  /\ sleeps = 0
  /\ started = {}
  /\ completed = {}
  /\ fetched = [p \in 1..2 |-> <<>>]
  /\ files = [f \in FileNames(chapter) |-> "absent"]

\* ---------------------------------------------------------------- download
\* The state of a fresh call of download(&options).
CallDownload ==
  /\ dpc' = "begin"
  /\ rest' = <<>>
  /\ chunk' = <<>>
  /\ offset' = 0
  /\ subdownloads' = <<>>
  /\ inflight' = {}
  /\ downloads' = <<>>
  /\ sleeps' = 0
  /\ started' = {}
  /\ completed' = {}

\* download_chunk(c): every fetch of the chunk is started, then join_all waits.
Launch(c, r, off) ==
  /\ dpc' = "joining"
  /\ chunk' = c
  /\ rest' = r
  /\ offset' = off
  /\ subdownloads' = [i \in 1..Len(c) |-> Pending]
  /\ inflight' = {off + i : i \in 1..Len(c)}
  /\ started' = started \cup {off + i : i \in 1..Len(c)}
  /\ fetched' = [fetched EXCEPT ![pass] = @ \o c]

\* while let Some(chunk) = chunks.next()
LoopHead(r, off) ==
  IF r = <<>>
    THEN /\ dpc' = "done"
         /\ UNCHANGED <<rest, chunk, offset, subdownloads, inflight, started,
                        fetched>>
    ELSE Launch(Head(r), Tail(r), off)

Limited == options.limit_speed # None

NumItems == options.limit_speed[1].num_items

\* download, up to its first await.
download_begin ==
  /\ dpc = "begin"
  /\ ~(Limited /\ NumItems = 0)
  /\ IF Limited
       THEN LoopHead(chunks(options.items, NumItems), 0)
       ELSE Launch(options.items, <<>>, 0)
  /\ UNCHANGED <<downloads, sleeps, completed, files>>
  /\ UNCHANGED chapterVars
  /\ UNCHANGED extVars

\* slice::chunks panics when the chunk size is 0.
download_panic ==
  /\ dpc = "begin"
  /\ Limited /\ NumItems = 0
  /\ dpc' = "panicked"
  /\ pc' = "panicked"
  /\ UNCHANGED <<chapter, options, pass, failed_items, results1, results2,
                 result, rest, chunk, offset, subdownloads, inflight,
                 downloads, sleeps, started, completed, fetched, files>>
  /\ UNCHANGED extVars

\* One running fetch completes, at a stage the environment chooses, and its
\* log line is written.
fetch_complete(p, stage) ==
  /\ dpc = "joining"
  /\ p \in inflight
  /\ LET item == chunk[p - offset]
         f == file_name(item)
     IN  /\ subdownloads' =
              join_all_place(subdownloads, p - offset,
                             download_one_url(item, stage))
         /\ files' = [files EXCEPT ![f] = FileAfter(files[f], stage)]
         /\ log' = log (+) log_event(item, download_one_url(item, stage))
  /\ inflight' = inflight \ {p}
  /\ completed' = completed \cup {p}
  /\ UNCHANGED <<dpc, rest, chunk, offset, downloads, sleeps, started, fetched>>
  /\ UNCHANGED chapterVars
  /\ UNCHANGED <<callerVars, unit, newVars>>

\* join_all returns: the chunk's outcomes are appended, and the run sleeps
\* when another chunk follows.
chunk_joined ==
  /\ dpc = "joining"
  /\ join_all_ready(subdownloads)
  /\ downloads' = downloads \o subdownloads
  /\ IF Limited
       THEN IF peek_is_some(rest)
              THEN /\ dpc' = "sleeping"
                   /\ sleeps' = sleeps + 1
                   /\ UNCHANGED <<rest, chunk, offset, subdownloads, inflight,
                                  started, fetched>>
              ELSE /\ LoopHead(rest, offset + Len(chunk))
                   /\ UNCHANGED sleeps
       ELSE /\ dpc' = "done"
            /\ UNCHANGED <<rest, chunk, offset, subdownloads, inflight,
                           started, fetched, sleeps>>
  /\ UNCHANGED <<completed, files>>
  /\ UNCHANGED chapterVars
  /\ UNCHANGED extVars

\* tokio::time::sleep(duration) is over: the loop takes the next chunk.
sleep_over ==
  /\ dpc = "sleeping"
  /\ LoopHead(rest, offset + Len(chunk))
  /\ UNCHANGED <<downloads, sleeps, completed, files>>
  /\ UNCHANGED chapterVars
  /\ UNCHANGED extVars

\* -------------------------------------------------------- download_chapter
\* set_path fails (create_dir_all): download_chapter returns PathError.
download_chapter_path_error ==
  /\ pc = "start"
  /\ pc' = "returned"
  /\ result' = PathError
  /\ UNCHANGED <<chapter, options, pass, failed_items, results1, results2,
                 dpc, rest, chunk, offset, subdownloads, inflight, downloads,
                 sleeps, started, completed, fetched, files>>
  /\ UNCHANGED extVars

\* download_chapter up to the first call of download.
download_chapter_begin ==
  /\ pc = "start"
  /\ LET o1 == set_path(DownloadOptionsNew, "download_path")
         o2 == IF chapter.server_speed_limit # None
                 THEN set_limit_speed(o1, chapter.server_speed_limit[1])
                 ELSE o1
     IN  options' = add_download_items(o2, chapter.pages)
  /\ failed_items' = <<>>
  /\ pc' = "pass1"
  /\ pass' = pass + 1
  /\ CallDownload
  /\ UNCHANGED <<chapter, results1, results2, result, fetched, files>>
  /\ UNCHANGED extVars

\* The first pass returned: collect the items of the RequestError outcomes.
first_pass_done ==
  /\ pc = "pass1"
  /\ dpc = "done"
  /\ results1' = downloads
  /\ failed_items' = failed_items_of(downloads)
  /\ IF failed_items_of(downloads) # <<>>
       THEN /\ pc' = "backoff"
            /\ UNCHANGED result
       ELSE /\ pc' = "returned"
            /\ result' = OkResult
  /\ dpc' = "idle"
  /\ UNCHANGED <<chapter, options, pass, results2, rest, chunk, offset,
                 subdownloads, inflight, downloads, sleeps, started, completed,
                 fetched, files>>
  /\ UNCHANGED extVars

\* The 5 second sleep is over: the options are refilled with the failed items
\* and download is called again.
retry_begin ==
  /\ pc = "backoff"
  /\ options' = add_download_items(clear_download_items(options), failed_items)
  /\ pc' = "pass2"
  /\ pass' = pass + 1
  /\ CallDownload
  /\ UNCHANGED <<chapter, failed_items, results1, results2, result, fetched,
                 files>>
  /\ UNCHANGED extVars

\* The retry pass returned.
retry_done ==
  /\ pc = "pass2"
  /\ dpc = "done"
  /\ results2' = downloads
  /\ result' = IF \A i \in 1..Len(downloads) : downloads[i].kind = "Ok"
                 THEN OkResult
                 ELSE PagesDownloadError(sources_of(downloads))
  /\ pc' = "returned"
  /\ dpc' = "idle"
  /\ UNCHANGED <<chapter, options, pass, failed_items, results1, rest, chunk,
                 offset, subdownloads, inflight, downloads, sleeps, started,
                 completed, fetched, files>>
  /\ UNCHANGED extVars

Next ==
  \/ download_chapter_path_error
  \/ download_chapter_begin
  \/ download_begin
  \/ download_panic
  \/ \E p \in inflight, stage \in Stages : fetch_complete(p, stage)
  \/ chunk_joined
  \/ sleep_over
  \/ first_pass_done
  \/ retry_begin
  \/ retry_done

Spec == Init /\ [][Next]_vars

\* ============================================================ fetch unit
\* One fetch unit on its own: the URLs of one descriptor are tried in turn and
\* the first 2xx response is saved under a name whose extension may be
\* inferred from the content type.
MaxFallbacks == 2

\* --- naming (download_one_url, infer_extension_from_response)
\* A file name is a stem and an optional extension; an extension, like a MIME
\* subtype, is a sequence of pieces of text, so that a replacement inside it
\* can be followed ("p" "jpeg" -> "p" "jpg").
FileName(stem, ext) == [stem |-> stem, ext |-> ext]

\* Path::extension
extension(name) == name.ext

\* Path::with_extension
with_extension(name, ext) == [name EXCEPT !.ext = Some(ext)]

Mime(type, subtype) == [parses |-> TRUE, type |-> type, subtype |-> subtype]

\* A header value that str::parse::<Mime> rejects.
NotMime == [parses |-> FALSE, type |-> "", subtype |-> <<>>]

\* The Content-Type headers the model explores; None is a missing header.
ContentTypes ==
  {None, Some(NotMime)}
    \cup {Some(Mime("image", st)) :
            st \in {<<"jpeg">>, <<"png">>, <<"webp">>, <<"gif">>, <<"p", "jpeg">>}}
    \cup {Some(Mime("text", st)) :
            st \in {<<"plain">>, <<"csv">>, <<"html">>, <<"xml">>}}
    \cup {Some(Mime("application", st)) :
            st \in {<<"pdf">>, <<"json">>, <<"zip">>, <<"octet-stream">>}}
    \cup {Some(Mime("video", <<"mp4">>))}

\* str::replace("jpeg", "jpg")
replace_jpeg_never(st) == st

replace_jpeg(st) ==
  [i \in 1..Len(st) |-> IF st[i] = "jpeg" THEN "jpg" ELSE st[i]]

infer_extension_from_response(ctype) ==
  IF ctype = None THEN None
  ELSE IF ~ctype[1].parses THEN None
  ELSE LET x == ctype[1]
       IN  CASE x.type = "image" -> Some(replace_jpeg(x.subtype))
             [] x.type = "text" ->
                  (CASE x.subtype = <<"plain">> -> Some(<<"txt">>)
                     [] x.subtype \in {<<"csv">>, <<"html">>} -> Some(x.subtype)
                     [] OTHER -> None)
             [] x.type = "application" ->
                  (IF x.subtype \in {<<"pdf">>, <<"json">>, <<"zip">>}
                     THEN Some(x.subtype) ELSE None)
             [] OTHER -> None

\* provided file name or inferred from url: the name before the extension
\* is looked at
base_file_name(name, u) == IF name # None THEN name[1] ELSE u.segment

\* the name the response is saved under
saved_file_name(name, u, ctype) ==
  LET n == base_file_name(name, u)
      e == infer_extension_from_response(ctype)
  IN  IF extension(n) = None /\ e # None THEN with_extension(n, e[1]) ELSE n

\* --- the URLs of a descriptor
UnitUrl(i, segext) == [id |-> i, segment |-> FileName(<<"segment", i>>, segext)]

\* What a URL answers: a 2xx response or one of the failures.
Answers == {"2xx", "status", "network", "timeout"}

UnitNames ==
  {None, Some(FileName("page", None)), Some(FileName("page", Some(<<"png">>)))}

\* PageDescriptor: primary URL first, then the fallback URLs in their order.
PageDescriptors ==
  {[urls |-> [i \in 1..n |-> UnitUrl(i, segext)], name |-> name] :
     n \in 1..(1 + MaxFallbacks), segext \in {None, Some(<<"jpg">>)},
     name \in UnitNames}

UnitError(answer, u) == [kind |-> answer, url |-> u.id]

\* The unit after the URL at idx has failed: the next URL in the list is
\* tried; when there is none the last error is the result.
fetch_failed_keep_first(u, err) ==
  LET e == IF u.last_error = None THEN Some(err) ELSE u.last_error
  IN  IF u.idx < Len(u.urls)
        THEN [u EXCEPT !.idx = u.idx + 1, !.last_error = e]
        ELSE [u EXCEPT !.phase = "done", !.last_error = e,
                       !.result = [kind |-> "Err", error |-> e, path |-> None]]

fetch_failed(u, err) ==
  IF u.idx < Len(u.urls)
    THEN [u EXCEPT !.idx = u.idx + 1, !.last_error = Some(err)]
    ELSE [u EXCEPT !.phase = "done", !.last_error = Some(err),
                   !.result = [kind |-> "Err", error |-> Some(err),
                               path |-> None]]

\* The unit after the URL at idx answered 2xx.
fetch_succeeded(u) ==
  [u EXCEPT !.phase = "done",
            !.result = [kind |-> "Ok", error |-> None,
                        path |-> Some(saved_file_name(u.name, u.urls[u.idx],
                                                      u.ctype))]]

UnitInit ==
  \E d \in PageDescriptors, ct \in ContentTypes :
    \E answers \in [1..Len(d.urls) -> Answers] :
      unit = [phase |-> "trying", urls |-> d.urls, name |-> d.name,
              answers |-> answers, ctype |-> ct, idx |-> 1, tried |-> <<>>,
              last_error |-> None,
              result |-> [kind |-> "None", error |-> None, path |-> None]]

\* The state of the rest of the program while a fetch unit is looked at alone.
DownloadIdle ==
  /\ chapter = [pages |-> <<>>, server_speed_limit |-> None]
  /\ options = DownloadOptionsNew
  /\ pc = "none"
  /\ pass = 0
  /\ failed_items = <<>>
  /\ results1 = <<>>
  /\ results2 = <<>>
  /\ result = NoResult
  /\ dpc = "idle"
  /\ rest = <<>>
  /\ chunk = <<>>
  /\ offset = 0
  /\ subdownloads = <<>>
  /\ inflight = {}
  /\ downloads = <<>>
  /\ sleeps = 0
  /\ started = {}
  /\ completed = {}
  /\ fetched = [p \in 1..2 |-> <<>>]
  /\ files = <<>>

downloadVars == <<chapter, options, pc, pass, failed_items, results1, results2,
                  result, dpc, rest, chunk, offset, subdownloads, inflight,
                  downloads, sleeps, started, completed, fetched, files>>

InitFetch == DownloadIdle /\ CallerIdle /\ UnitInit /\ AuxIdle

\* The request to the URL at idx fails.
fetch_url_fails ==
  /\ unit.phase = "trying"
  /\ unit.answers[unit.idx] # "2xx"
  /\ unit' = fetch_failed([unit EXCEPT !.tried = Append(unit.tried, unit.idx)],
                          UnitError(unit.answers[unit.idx], unit.urls[unit.idx]))
  /\ UNCHANGED downloadVars
  /\ UNCHANGED callerVars
  /\ UNCHANGED <<log, newVars>>

\* The request to the URL at idx is answered 2xx and the body is saved.
fetch_url_succeeds ==
  /\ unit.phase = "trying"
  /\ unit.answers[unit.idx] = "2xx"
  /\ unit' = fetch_succeeded([unit EXCEPT !.tried = Append(unit.tried, unit.idx)])
  /\ UNCHANGED downloadVars
  /\ UNCHANGED callerVars
  /\ UNCHANGED <<log, newVars>>

NextFetch == fetch_url_fails \/ fetch_url_succeeds

SpecFetch == InitFetch /\ [][NextFetch]_vars

\* ============================================================ get_chapter
\* --- the chapter URL
\* A domain is a sequence of pieces of text, so that str::contains can be
\* followed: "www.nettruyenus.com" is "www." "nettruyen" "us.com".
ExactDomains ==
  {<<"mangapark.net">>, <<"mangadex.org">>, <<"truyenqq.com.vn">>,
   <<"truyenqqne.com">>, <<"blogtruyen.vn">>, <<"www.toptruyen.live">>,
   <<"truyentuan.com">>}

MirrorDomains == {<<"www.", "nettruyen", "us.com">>, <<"nettruyen", "co.vn">>}

OtherDomains ==
  {<<"example.com">>, <<"blogtruyenmoi.com">>, <<"www.", "mangapark.net">>}

Domains == ExactDomains \cup MirrorDomains \cup OtherDomains

\* str::contains
contains(d, piece) == \E i \in 1..Len(d) : d[i] = piece

\* wellformed: into_url accepts the text; host: Url::domain, None for an IP
\* address; chapter_id: the path is /chapter/<id>.
ChapterUrl(wellformed, host, chapter_id) ==
  [wellformed |-> wellformed, host |-> host, chapter_id |-> chapter_id]

ChapterUrls ==
  {ChapterUrl(FALSE, None, FALSE), ChapterUrl(TRUE, None, FALSE)}
    \cup {ChapterUrl(TRUE, Some(d), c) : d \in Domains, c \in BOOLEAN}

\* --- what the site serves
\* The URL of a page image: a directory and a file name.
PageUrl(dir, file) == [dir |-> dir, file |-> file]

SitePageUrls == {PageUrl("a", 1), PageUrl("b", 1), PageUrl("a", 2)}

\* An entry of the page list; src is None when the entry carries no usable
\* source (an <img> without src, a list entry that is not a URL string).
Img(src) == [src |-> src]

RECURSIVE SeqsUpTo(_, _)
SeqsUpTo(S, n) ==
  IF n = 0 THEN {<<>>}
  ELSE LET shorter == SeqsUpTo(S, n - 1)
       IN  shorter \cup {Append(s, x) : s \in shorter, x \in S}

\* reachable: the requests are answered 2xx; title: the title element is
\* "absent", present without the expected text ("empty") or with it ("text");
\* list: the container of the page list is there; imgs: its entries.
Sites ==
  {[reachable |-> r, title |-> t, list |-> l, imgs |-> imgs] :
     r \in BOOLEAN, t \in {"absent", "empty", "text"}, l \in BOOLEAN,
     imgs \in SeqsUpTo({Img(None)} \cup {Img(Some(u)) : u \in SitePageUrls},
                       MaxPages)}

\* --- the adapters
\* What from_url gives: Ok(chapter), Err(error) or a panic; requests counts
\* the network requests it made.
AdapterOk(manga, pages, n) ==
  [kind |-> "Ok", error |-> "", domain |-> None, manga |-> manga,
   pages |-> pages, requests |-> n]

AdapterErr(error, n) ==
  [kind |-> "Err", error |-> error, domain |-> None, manga |-> "",
   pages |-> <<>>, requests |-> n]

AdapterPanic(n) ==
  [kind |-> "Panic", error |-> "", domain |-> None, manga |-> "",
   pages |-> <<>>, requests |-> n]

\* text_iter.next().unwrap_or("")
title_text(html) == IF html.title = "text" THEN "manga" ELSE ""

\* html.select(&img_selector): nothing is selected without the container
selected(html) == IF html.list THEN html.imgs ELSE <<>>

\* format!("page_{:02}", i) over enumerate(), counted from first
enumerate_pages(imgs, first) ==
  [i \in 1..Len(imgs) |->
     DownloadItem(imgs[i].src[1], Some(<<"page", i - 1 + first>>))]

\* truyenqq, blogtruyen, toptruyen: attr("src").unwrap() on every <img>
unwrap_src_from_url(html) ==
  IF ~html.reachable THEN AdapterErr("RequestError", 1)
  ELSE IF html.title = "absent" THEN AdapterErr("ParseError", 1)
  ELSE IF \E i \in 1..Len(selected(html)) : selected(html)[i].src = None
    THEN AdapterPanic(1)
  ELSE AdapterOk(title_text(html), enumerate_pages(selected(html), 0), 1)

\* nettruyen: an <img> without src, data-sv1 and data-src is passed over
\* (continue), the index of enumerate() still counts it.
RECURSIVE nettruyen_pages(_, _)
nettruyen_pages(imgs, i) ==
  IF i > Len(imgs) THEN <<>>
  ELSE (IF imgs[i].src = None THEN <<>>
        ELSE <<DownloadItem(imgs[i].src[1], Some(<<"page", i - 1>>))>>)
         \o nettruyen_pages(imgs, i + 1)

nettruyen_from_url(html) ==
  IF ~html.reachable THEN AdapterErr("RequestError", 1)
  ELSE IF html.title = "absent" THEN AdapterErr("ParseError", 1)
  ELSE AdapterOk(title_text(html), nettruyen_pages(selected(html), 1), 1)

\* truyentranhtuan: the list is the JSON array slides_page_path, and a page
\* is named by Path::file_name of its URL.
truyentranhtuan_from_url(html) ==
  IF ~html.reachable THEN AdapterErr("RequestError", 1)
  ELSE IF html.title = "absent" THEN AdapterErr("ParseError", 1)
  ELSE IF ~html.list THEN AdapterErr("ParseError", 1)
  ELSE IF \E i \in 1..Len(html.imgs) : html.imgs[i].src = None
    THEN AdapterErr("JsonError", 1)
  ELSE AdapterOk(title_text(html),
                 [i \in 1..Len(html.imgs) |->
                    DownloadItem(html.imgs[i].src[1],
                                 Some(<<"file", html.imgs[i].src[1].file>>))],
                 1)

\* mangapark: the pattern (?:"https://[^"]+",)+ takes the leading entries that
\* are URL strings, and needs one at least.
RECURSIVE leading_urls(_)
leading_urls(imgs) ==
  IF imgs = <<>> THEN <<>>
  ELSE IF Head(imgs).src = None THEN <<>>
  ELSE <<Head(imgs)>> \o leading_urls(Tail(imgs))

mangapark_from_url(html) ==
  IF ~html.reachable THEN AdapterErr("RequestError", 1)
  ELSE IF leading_urls(selected(html)) = <<>> THEN AdapterErr("ParseError", 1)
  ELSE IF html.title = "absent" THEN AdapterErr("ParseError", 1)
  ELSE AdapterOk(IF html.title = "text" THEN "manga" ELSE "",
                 enumerate_pages(leading_urls(selected(html)), 0), 1)

\* mangadex: two API requests, both deserialized strictly.
mangadex_from_url(u, html) ==
  IF ~u.chapter_id THEN AdapterErr("UrlParseError", 0)
  ELSE IF ~html.reachable THEN AdapterErr("RequestError", 1)
  ELSE IF html.title = "absent" THEN AdapterErr("CannotGetManga", 1)
  ELSE IF ~html.list \/ \E i \in 1..Len(html.imgs) : html.imgs[i].src = None
    THEN AdapterErr("DeserializeError", 2)
  ELSE AdapterOk(IF html.title = "text" THEN "manga" ELSE "",
                 enumerate_pages(html.imgs, 1), 2)

\* --- the dispatch
InvalidUrl == AdapterErr("InvalidUrl", 0)

SiteNotSupported(x) == [AdapterErr("SiteNotSupported", 0) EXCEPT !.domain = Some(x)]

get_chapter_no_domain_arm(u, html) ==
  IF ~u.wellformed THEN InvalidUrl
  ELSE IF u.host = Some(<<"mangapark.net">>) THEN mangapark_from_url(html)
  ELSE IF u.host = Some(<<"mangadex.org">>) THEN mangadex_from_url(u, html)
  ELSE IF u.host \in {Some(<<"truyenqq.com.vn">>), Some(<<"truyenqqne.com">>),
                      Some(<<"blogtruyen.vn">>), Some(<<"www.toptruyen.live">>)}
    THEN unwrap_src_from_url(html)
  ELSE IF u.host = Some(<<"truyentuan.com">>) THEN truyentranhtuan_from_url(html)
  ELSE IF u.host # None /\ contains(u.host[1], "nettruyen")
    THEN nettruyen_from_url(html)
  ELSE InvalidUrl

get_chapter_or_default(u, html) ==
  IF ~u.wellformed \/ u.host = None \/ ~html.reachable
    THEN AdapterOk("", <<>>, 0)
    ELSE get_chapter_no_domain_arm(u, html)

get_chapter_exact_only(u, html) ==
  IF ~u.wellformed THEN InvalidUrl
  ELSE IF u.host = Some(<<"mangapark.net">>) THEN mangapark_from_url(html)
  ELSE IF u.host = Some(<<"mangadex.org">>) THEN mangadex_from_url(u, html)
  ELSE IF u.host \in {Some(<<"truyenqq.com.vn">>), Some(<<"truyenqqne.com">>),
                      Some(<<"blogtruyen.vn">>), Some(<<"www.toptruyen.live">>)}
    THEN unwrap_src_from_url(html)
  ELSE IF u.host = Some(<<"truyentuan.com">>) THEN truyentranhtuan_from_url(html)
  ELSE IF u.host = Some(<<"nettruyen">>)
    THEN nettruyen_from_url(html)
  ELSE IF u.host # None THEN SiteNotSupported(u.host[1])
  ELSE InvalidUrl

get_chapter(u, html) ==
  IF ~u.wellformed THEN InvalidUrl
  ELSE IF u.host = Some(<<"mangapark.net">>) THEN mangapark_from_url(html)
  ELSE IF u.host = Some(<<"mangadex.org">>) THEN mangadex_from_url(u, html)
  ELSE IF u.host \in {Some(<<"truyenqq.com.vn">>), Some(<<"truyenqqne.com">>),
                      Some(<<"blogtruyen.vn">>), Some(<<"www.toptruyen.live">>)}
    THEN unwrap_src_from_url(html)
  ELSE IF u.host = Some(<<"truyentuan.com">>) THEN truyentranhtuan_from_url(html)
  ELSE IF u.host # None /\ contains(u.host[1], "nettruyen")
    THEN nettruyen_from_url(html)
  ELSE IF u.host # None THEN SiteNotSupported(u.host[1])
  ELSE InvalidUrl

\* ============================================================ download_one
\* The state in which download_one is entered.
CallerInit(urls, sites, flags) ==
  /\ url \in urls
  /\ site \in sites
  /\ cbz \in flags
  /\ cpc = "resolve"
  /\ cresult = NoResult
  /\ dirs = {}
  /\ archive = NoArchive
  /\ calls = 0
  /\ files1 = <<>>
  /\ requests = 0

\* let chapter = get_chapter(url).await?
get_chapter_call ==
  /\ cpc = "resolve"
  /\ LET r == get_chapter(url, site)
         ch == [pages |-> r.pages, server_speed_limit |-> None,
                manga |-> r.manga]
     IN  /\ requests' = requests + r.requests
         /\ CASE r.kind = "Ok" ->
                   /\ cpc' = "resolved"
                   /\ chapter' = ch
                   /\ files' = [f \in FileNames(ch) |-> "absent"]
                   /\ UNCHANGED cresult
              [] r.kind = "Err" ->
                   /\ cpc' = "returned"
                   /\ cresult' = [kind |-> r.error, sources |-> <<>>,
                                  domain |-> r.domain]
                   /\ UNCHANGED <<chapter, files>>
              [] OTHER ->
                   /\ cpc' = "panicked"
                   /\ UNCHANGED <<chapter, files, cresult>>
  /\ UNCHANGED <<options, pc, pass, failed_items, results1, results2, result,
                 dpc, rest, chunk, offset, subdownloads, inflight, downloads,
                 sleeps, started, completed, fetched>>
  /\ UNCHANGED <<url, site, cbz, dirs, archive, calls, files1, unit, log, newVars>>

\* get_chapter on its own, over every URL and every answer of the site.
InitResolve ==
  /\ DownloadIdle
  /\ unit = NoUnit
  /\ AuxIdle
  /\ CallerInit(ChapterUrls, Sites, {FALSE})

NextResolve == get_chapter_call

SpecResolve == InitResolve /\ [][NextResolve]_vars

\* ======================================== download_chapter, then the archive
MaxCalls == 2

dlVars == <<dpc, rest, chunk, offset, subdownloads, inflight, downloads,
            sleeps, started, completed>>

IoError(at) == [kind |-> "IoError", sources |-> <<>>, at |-> at]

\* The directory download_chapter is given: the temporary directory for an
\* archive, out_dir/full_name otherwise.
Dest == IF cbz THEN "tempdir" ELSE "download_path"

\* fs::create_dir_all: Ok when the directory is there already; env_ok is
\* whether the file system lets a missing one be made.
create_dir(ds, path, env_ok) ==
  IF path \notin ds /\ env_ok
    THEN [ok |-> TRUE, dirs |-> ds \cup {path}]
    ELSE [ok |-> FALSE, dirs |-> ds]

create_dir_all(ds, path, env_ok) ==
  IF path \in ds \/ env_ok
    THEN [ok |-> TRUE, dirs |-> ds \cup {path}]
    ELSE [ok |-> FALSE, dirs |-> ds]

\* TempDir::into_path: the directory is no longer removed when the handle is
\* dropped, so a return of download_chapter_as_cbz leaves it as it is.
into_path_still_owned(fs) ==
  [dirs |-> fs.dirs \ {"tempdir"},
   files |-> [f \in DOMAIN fs.files |-> "absent"]]

into_path(fs) == fs

\* zip.start_file(name) and io::copy(source_file, zip)
zip_entry_no_copy(f, content) == <<f, "empty">>

zip_entry(f, content) == <<f, content>>

\* fs::read_dir(folder_path), the entries that are files
DirEntries == {f \in DOMAIN files : files[f] # "absent"}

Unzipped == {f \in DirEntries : \A en \in archive.entries : en[1] # f}

\* download_chapter_as_cbz returns an error.
CbzFails(err) ==
  /\ cresult' = err
  /\ cpc' = "returned"
  /\ LET fs == into_path([dirs |-> dirs, files |-> files])
     IN  dirs' = fs.dirs /\ files' = fs.files

\* download_one, archive asked for: tempfile::tempdir()?
cbz_begin(ok) ==
  /\ cpc = "resolved"
  /\ cbz
  /\ IF ok
       THEN /\ dirs' = dirs \cup {"tempdir"}
            /\ cpc' = "download"
            /\ pc' = "start"
            /\ UNCHANGED cresult
       ELSE /\ cresult' = IoError("tempdir")
            /\ cpc' = "returned"
            /\ UNCHANGED <<dirs, pc>>
  /\ UNCHANGED <<chapter, options, pass, failed_items, results1, results2,
                 result, fetched, files, url, site, cbz, archive, calls,
                 files1, requests, unit, log, newVars>>
  /\ UNCHANGED dlVars

\* download_one, no archive: download_chapter is called.
plain_begin ==
  /\ cpc = "resolved"
  /\ ~cbz
  /\ cpc' = "download"
  /\ pc' = "start"
  /\ UNCHANGED <<chapter, options, pass, failed_items, results1, results2,
                 result, fetched, files, url, site, cbz, cresult, dirs,
                 archive, calls, files1, requests, unit, log, newVars>>
  /\ UNCHANGED dlVars

\* download_chapter (manget): set_path, add_download_items, then the single
\* call of download.
manget_download_chapter_begin(env_ok) ==
  /\ cpc = "download"
  /\ pc = "start"
  /\ LET r == create_dir_all(dirs, Dest, env_ok)
     IN  IF r.ok
           THEN /\ dirs' = r.dirs
                /\ options' = add_download_items(
                                set_path(DownloadOptionsNew, Dest), chapter.pages)
                /\ pc' = "single"
                /\ pass' = 1
                /\ fetched' = [p \in 1..2 |-> <<>>]
                /\ CallDownload
                /\ UNCHANGED <<result, calls, files1>>
           ELSE /\ pc' = "returned"
                /\ result' = PathError
                /\ calls' = calls + 1
                /\ files1' = IF calls = 0 THEN files ELSE files1
                /\ UNCHANGED <<dirs, options, pass, fetched>>
                /\ UNCHANGED dlVars
  /\ UNCHANGED <<chapter, failed_items, results1, results2, files, url, site,
                 cbz, cpc, cresult, archive, requests, unit, log, newVars>>

\* download returned: every error is collected.
manget_download_chapter_done ==
  /\ cpc = "download"
  /\ pc = "single"
  /\ dpc = "done"
  /\ results1' = downloads
  /\ result' = IF sources_of(downloads) = <<>>
                 THEN OkResult
                 ELSE PagesDownloadError(sources_of(downloads))
  /\ pc' = "returned"
  /\ dpc' = "idle"
  /\ calls' = calls + 1
  /\ files1' = IF calls = 0 THEN files ELSE files1
  /\ UNCHANGED <<chapter, options, pass, failed_items, results2, rest, chunk,
                 offset, subdownloads, inflight, downloads, sleeps, started,
                 completed, fetched, files, url, site, cbz, cpc, cresult,
                 dirs, archive, requests, unit, log, newVars>>

\* download_one, no archive: the result of download_chapter is returned.
plain_return ==
  /\ cpc = "download"
  /\ pc = "returned"
  /\ ~cbz
  /\ cresult' = result
  /\ cpc' = "returned"
  /\ UNCHANGED <<chapter, options, pc, pass, failed_items, results1, results2,
                 result, fetched, files, url, site, cbz, dirs, archive, calls,
                 files1, requests, unit, log, newVars>>
  /\ UNCHANGED dlVars

\* download_chapter is called once more on the same chapter and directory.
call_again ==
  /\ cpc = "returned"
  /\ ~cbz
  /\ cresult.kind = "Ok"
  /\ calls < MaxCalls
  /\ cpc' = "download"
  /\ pc' = "start"
  /\ cresult' = NoResult
  /\ result' = NoResult
  /\ UNCHANGED <<chapter, options, pass, failed_items, results1, results2,
                 fetched, files, url, site, cbz, dirs, archive, calls, files1,
                 requests, unit, log, newVars>>
  /\ UNCHANGED dlVars

\* download_chapter_as_cbz after download_chapter: its error is passed on (?),
\* else the parent directory of the archive path is made.
cbz_downloaded(env_ok) ==
  /\ cpc = "download"
  /\ pc = "returned"
  /\ cbz
  /\ IF result.kind # "Ok"
       THEN CbzFails(result)
       ELSE LET r == create_dir_all(dirs, "zip_parent", env_ok)
            IN  IF r.ok
                  THEN /\ dirs' = r.dirs
                       /\ cpc' = "zip_open"
                       /\ UNCHANGED <<cresult, files>>
                  ELSE CbzFails(IoError("parent"))
  /\ UNCHANGED <<chapter, options, pc, pass, failed_items, results1, results2,
                 result, fetched, url, site, cbz, archive, calls, files1,
                 requests, unit, log, newVars>>
  /\ UNCHANGED dlVars

\* zip_folder: File::create(output_path), then fs::read_dir(folder_path).
zip_open(outcome) ==
  /\ cpc = "zip_open"
  /\ CASE outcome = "create" ->
            /\ CbzFails(IoError("zip"))
            /\ UNCHANGED archive
       [] outcome = "read_dir" ->
            /\ CbzFails(IoError("zip"))
            /\ archive' = [exists |-> TRUE, finished |-> FALSE, entries |-> {}]
       [] OTHER ->
            /\ archive' = [exists |-> TRUE, finished |-> FALSE, entries |-> {}]
            /\ cpc' = "zip_entries"
            /\ UNCHANGED <<cresult, dirs, files>>
  /\ UNCHANGED <<chapter, options, pc, pass, failed_items, results1, results2,
                 result, fetched, url, site, cbz, calls, files1, requests,
                 unit, log, newVars>>
  /\ UNCHANGED dlVars

\* zip_folder: one file of the directory is added, in the order of read_dir.
zip_add(f, ok) ==
  /\ cpc = "zip_entries"
  /\ f \in Unzipped
  /\ IF ok
       THEN /\ archive' = [archive EXCEPT
                             !.entries = @ \cup {zip_entry(f, files[f])}]
            /\ UNCHANGED <<cpc, cresult, dirs, files>>
       ELSE /\ CbzFails(IoError("zip"))
            /\ UNCHANGED archive
  /\ UNCHANGED <<chapter, options, pc, pass, failed_items, results1, results2,
                 result, fetched, url, site, cbz, calls, files1, requests,
                 unit, log, newVars>>
  /\ UNCHANGED dlVars

\* zip_folder: zip.finish()
zip_finish(ok) ==
  /\ cpc = "zip_entries"
  /\ Unzipped = {}
  /\ IF ok
       THEN /\ archive' = [archive EXCEPT !.finished = TRUE]
            /\ cpc' = "cleanup"
            /\ UNCHANGED <<cresult, dirs, files>>
       ELSE /\ CbzFails(IoError("zip"))
            /\ UNCHANGED archive
  /\ UNCHANGED <<chapter, options, pc, pass, failed_items, results1, results2,
                 result, fetched, url, site, cbz, calls, files1, requests,
                 unit, log, newVars>>
  /\ UNCHANGED dlVars

\* let _ = fs::remove_dir_all(outdir); Ok(zip_path): whether the removal
\* worked is not looked at.
cbz_cleanup(removed) ==
  /\ cpc = "cleanup"
  /\ LET fs == into_path(
                 IF removed
                   THEN [dirs |-> dirs \ {"tempdir"},
                         files |-> [f \in DOMAIN files |-> "absent"]]
                   ELSE [dirs |-> dirs, files |-> files])
     IN  dirs' = fs.dirs /\ files' = fs.files
  /\ cresult' = [kind |-> "Ok", sources |-> <<>>, removed |-> removed]
  /\ cpc' = "returned"
  /\ UNCHANGED <<chapter, options, pc, pass, failed_items, results1, results2,
                 result, fetched, url, site, cbz, archive, calls, files1,
                 requests, unit, log, newVars>>
  /\ UNCHANGED dlVars

\* --- download_one on a few requests
CbzUrls ==
  {ChapterUrl(TRUE, Some(<<"truyenqq.com.vn">>), FALSE),
   ChapterUrl(TRUE, Some(<<"truyentuan.com">>), FALSE),
   ChapterUrl(TRUE, Some(<<"example.com">>), FALSE),
   ChapterUrl(FALSE, None, FALSE)}

\* Complete pages of 0..MaxPages images, every image in a directory of its
\* own, the image files all called alike or each by its number; and a site
\* that does not answer.
CbzSites ==
  {[reachable |-> FALSE, title |-> "text", list |-> TRUE, imgs |-> <<>>]}
    \cup {[reachable |-> TRUE, title |-> "text", list |-> TRUE,
           imgs |-> [i \in 1..n |->
                       Img(Some(PageUrl(<<"dir", i>>, IF alike THEN 1 ELSE i)))]] :
            n \in 0..MaxPages, alike \in BOOLEAN}

InitCbz ==
  /\ DownloadIdle
  /\ unit = NoUnit
  /\ AuxIdle
  /\ CallerInit(CbzUrls, CbzSites, BOOLEAN)

NextCbz ==
  \/ get_chapter_call
  \/ \E ok \in BOOLEAN : cbz_begin(ok)
  \/ plain_begin
  \/ \E env_ok \in BOOLEAN : manget_download_chapter_begin(env_ok)
  \/ download_begin
  \/ \E p \in inflight, stage \in Stages : fetch_complete(p, stage)
  \/ chunk_joined
  \/ manget_download_chapter_done
  \/ plain_return
  \/ call_again
  \/ \E env_ok \in BOOLEAN : cbz_downloaded(env_ok)
  \/ \E outcome \in {"create", "read_dir", "ok"} : zip_open(outcome)
  \/ \E f \in Unzipped, ok \in BOOLEAN : zip_add(f, ok)
  \/ \E ok \in BOOLEAN : zip_finish(ok)
  \/ \E removed \in BOOLEAN : cbz_cleanup(removed)

SpecCbz == InitCbz /\ [][NextCbz]_vars

\* ============================================================ CLI batch mode
\* main, given --file: the lines of the file are the URLs; download_one, whose
\* course is followed above, is taken here by its result alone.
MaxUrls == 3

\* content.lines().rev()
Reverse(s) == [i \in 1..Len(s) |-> s[Len(s) + 1 - i]]

\* the iterator the loop runs over
urls_forward(lines, reverse) == lines

urls_of(lines, reverse) == IF reverse THEN Reverse(lines) ELSE lines

\* the path download_one returns for the chapter at a URL
downloaded_path(u) == <<"path", u>>

\* Err(e) => if !args.batch_args.ignore_error { return Err(e) }
returns_on_error(ignore_error) == ~ignore_error

BatchRuns ==
  {[pc |-> "loop", lines |-> [i \in 1..n |-> i], reverse |-> rev,
    ignore_error |-> ign, make_cbz |-> mk,
    rest |-> urls_of([i \in 1..n |-> i], rev), running |-> {},
    attempted |-> <<>>, outcomes |-> <<>>, downloaded_paths |-> <<>>,
    made |-> None, result |-> "none"] :
     n \in 0..MaxUrls, rev \in BOOLEAN, ign \in BOOLEAN, mk \in BOOLEAN}

InitBatch ==
  /\ DownloadIdle
  /\ CallerIdle
  /\ unit = NoUnit
  /\ log = EmptyBag
  /\ names = NoNames
  /\ server = NoServer
  /\ batch \in BatchRuns

\* download_service.ready().await?.call(request) for the next URL
batch_call ==
  /\ batch.pc = "loop"
  /\ batch.rest # <<>>
  /\ batch' = [batch EXCEPT !.pc = "calling",
                            !.rest = Tail(batch.rest),
                            !.running = {Head(batch.rest)},
                            !.attempted = Append(@, Head(batch.rest))]
  /\ UNCHANGED downloadVars
  /\ UNCHANGED callerVars
  /\ UNCHANGED <<unit, log, names, server>>

\* the call is over: the path is pushed, or the error ends the run or is
\* printed
batch_returned(ok) ==
  /\ batch.pc = "calling"
  /\ LET u == batch.attempted[Len(batch.attempted)]
         b == [batch EXCEPT !.running = {}, !.outcomes = Append(@, ok)]
     IN  batch' =
           IF ok
             THEN [b EXCEPT !.pc = "loop",
                            !.downloaded_paths = Append(@, downloaded_path(u))]
             ELSE IF returns_on_error(batch.ignore_error)
               THEN [b EXCEPT !.pc = "done", !.result = "Err"]
               ELSE [b EXCEPT !.pc = "loop"]
  /\ UNCHANGED downloadVars
  /\ UNCHANGED callerVars
  /\ UNCHANGED <<unit, log, names, server>>

\* the iterator is exhausted
batch_loop_end ==
  /\ batch.pc = "loop"
  /\ batch.rest = <<>>
  /\ batch' = IF batch.make_cbz
                THEN [batch EXCEPT !.pc = "make_cbz"]
                ELSE [batch EXCEPT !.pc = "done", !.result = "Ok"]
  /\ UNCHANGED downloadVars
  /\ UNCHANGED callerVars
  /\ UNCHANGED <<unit, log, names, server>>

\* make_cbz(&downloaded_paths)?
batch_make_cbz(ok) ==
  /\ batch.pc = "make_cbz"
  /\ batch' = [batch EXCEPT !.pc = "done",
                            !.made = Some(batch.downloaded_paths),
                            !.result = IF ok THEN "Ok" ELSE "Err"]
  /\ UNCHANGED downloadVars
  /\ UNCHANGED callerVars
  /\ UNCHANGED <<unit, log, names, server>>

NextBatch ==
  \/ batch_call
  \/ \E ok \in BOOLEAN : batch_returned(ok)
  \/ batch_loop_end
  \/ \E ok \in BOOLEAN : batch_make_cbz(ok)

SpecBatch == InitBatch /\ [][NextBatch]_vars

\* ====================================================== default archive path
\* The text of a name is cut at its dots: "Vol.13 Ch.106" is the pieces
\* "Vol" "13 Ch" "106".
MaxPieces == 3

NamePieces == {"Vol 1 Ch", "106", "107", ""}

\* The texts "{manga} - {chapter}" the model explores; they hold no character
\* that sanitize_filename::sanitize would take out.
RawNames == SeqsUpTo(NamePieces, MaxPieces) \ {<<>>}

\* str::trim_end_matches('.')
RECURSIVE trim_end_dots(_)
trim_end_dots(t) ==
  IF Len(t) >= 2 /\ t[Len(t)] = ""
    THEN trim_end_dots(SubSeq(t, 1, Len(t) - 1))
    ELSE t

generate_chapter_full_name(t) == trim_end_dots(t)

\* PathBuf::from(".").join(name): the file name seen as stem and extension,
\* the extension being what follows the last dot (none for a name whose only
\* dot is its first character).
join_name(t) ==
  IF Len(t) >= 2 /\ ~(Len(t) = 2 /\ t[1] = "")
    THEN FileName(SubSeq(t, 1, Len(t) - 1), Some(<<t[Len(t)]>>))
    ELSE FileName(t, None)

\* the default zip_path of download_chapter_as_cbz
default_zip_path(t) ==
  with_extension(join_name(generate_chapter_full_name(t)), <<"cbz">>)

InitNames ==
  /\ DownloadIdle
  /\ CallerIdle
  /\ unit = NoUnit
  /\ log = EmptyBag
  /\ batch = NoBatch
  /\ server = NoServer
  /\ names \in {[pc |-> "input", a |-> a, b |-> b, path_a |-> None,
                 path_b |-> None] : a \in RawNames, b \in RawNames}

\* The default archive paths of the two chapters are computed.
default_zip_paths ==
  /\ names.pc = "input"
  /\ names' = [names EXCEPT !.pc = "done",
                            !.path_a = Some(default_zip_path(names.a)),
                            !.path_b = Some(default_zip_path(names.b))]
  /\ UNCHANGED downloadVars
  /\ UNCHANGED callerVars
  /\ UNCHANGED <<unit, log, batch, server>>

NextNames == default_zip_paths

SpecNames == InitNames /\ [][NextNames]_vars

\* ================================================================ the server
\* POST /download, two requests handled concurrently.  The pages and the
\* archive of a request are taken by whether they got written; the course of
\* download_chapter_as_cbz is followed above.
MaxTemp == 4

Requests == {1, 2}

\* The names the temporary directories can get.
TempNames == 1..MaxTemp

\* tempfile::tempdir(): a directory is created under a random name, and a
\* name that exists already is not taken (create_dir fails on it and another
\* name is tried).
tempdir_any(ds) == TempNames

tempdir_names(ds) == TempNames \ ds

\* Uuid::new_v4(): the model lets two requests draw the same one.
Uuids == {"u1", "u2"}

File(dir, name) == [dir |-> dir, name |-> name]

NoRequest == [pc |-> "idle", zipdir |-> 0, pagedir |-> 0, uuid |-> ""]

InitServer ==
  /\ DownloadIdle
  /\ CallerIdle
  /\ unit = NoUnit
  /\ log = EmptyBag
  /\ batch = NoBatch
  /\ names = NoNames
  /\ server = [pc |-> "serving", req |-> [r \in Requests |-> NoRequest],
               dirs |-> {}, files |-> {}]

ServerStep(s) ==
  /\ server' = s
  /\ UNCHANGED downloadVars
  /\ UNCHANGED callerVars
  /\ UNCHANGED <<unit, log, batch, names>>

\* download_chapter_from_url: manga::get_chapter(url).await?
srv_get_chapter(r, ok) ==
  /\ server.req[r].pc = "idle"
  /\ ServerStep([server EXCEPT
                   !.req[r].pc = IF ok THEN "resolved" ELSE "failed"])

\* download_chapter_from_url: the random file name and
\* tempfile::tempdir()?.into_path().join(random_file_name)
srv_zip_tempdir(r, d, u, ok) ==
  /\ server.req[r].pc = "resolved"
  /\ d \in tempdir_names(server.dirs)
  /\ ServerStep(IF ok
                  THEN [server EXCEPT !.req[r].pc = "cbz",
                                      !.req[r].zipdir = d,
                                      !.req[r].uuid = u,
                                      !.dirs = @ \cup {d}]
                  ELSE [server EXCEPT !.req[r].pc = "failed"])

\* download_chapter_as_cbz: tempfile::tempdir()?
srv_page_tempdir(r, d, ok) ==
  /\ server.req[r].pc = "cbz"
  /\ d \in tempdir_names(server.dirs)
  /\ ServerStep(IF ok
                  THEN [server EXCEPT !.req[r].pc = "pages",
                                      !.req[r].pagedir = d,
                                      !.dirs = @ \cup {d}]
                  ELSE [server EXCEPT !.req[r].pc = "failed"])

\* download_chapter_as_cbz: download_chapter(.., Some(tempdir.into_path()))?
srv_pages_done(r, ok) ==
  /\ server.req[r].pc = "pages"
  /\ ServerStep([server EXCEPT
                   !.req[r].pc = IF ok THEN "zip" ELSE "failed",
                   !.files = @ \cup {File(server.req[r].pagedir, "pages")}])

\* download_chapter_as_cbz: create_dir_all(parent)?, zip_folder(..)?
srv_zip(r, ok) ==
  /\ server.req[r].pc = "zip"
  /\ ServerStep([server EXCEPT
                   !.req[r].pc = IF ok THEN "cleanup" ELSE "failed",
                   !.files = @ \cup {File(server.req[r].zipdir,
                                          server.req[r].uuid)}])

\* download_chapter_as_cbz: let _ = fs::remove_dir_all(outdir)
srv_remove_pages(r, removed) ==
  /\ server.req[r].pc = "cleanup"
  /\ ServerStep(IF removed
                  THEN [server EXCEPT
                          !.req[r].pc = "read",
                          !.dirs = @ \ {server.req[r].pagedir},
                          !.files = {f \in @ : f.dir # server.req[r].pagedir}]
                  ELSE [server EXCEPT !.req[r].pc = "read"])

\* download: File::open(&file_path)?.read_to_end(&mut data)?
srv_read(r, ok) ==
  /\ server.req[r].pc = "read"
  /\ ok => File(server.req[r].zipdir, server.req[r].uuid) \in server.files
  /\ ServerStep([server EXCEPT
                   !.req[r].pc = IF ok THEN "unlink" ELSE "failed"])

\* download: let _ = remove_file(&file_path); let _ = remove_dir(parent);
\* remove_dir takes an empty directory only.
srv_unlink(r, file_ok, dir_ok) ==
  /\ server.req[r].pc = "unlink"
  /\ LET zd == server.req[r].zipdir
         fs1 == IF file_ok
                  THEN server.files \ {File(zd, server.req[r].uuid)}
                  ELSE server.files
         empty == \A f \in fs1 : f.dir # zd
     IN  ServerStep([server EXCEPT
                       !.req[r].pc = "done",
                       !.files = fs1,
                       !.dirs = IF dir_ok /\ empty THEN @ \ {zd} ELSE @])

NextServer ==
  \/ \E r \in Requests, ok \in BOOLEAN : srv_get_chapter(r, ok)
  \/ \E r \in Requests, d \in TempNames, u \in Uuids, ok \in BOOLEAN :
       srv_zip_tempdir(r, d, u, ok)
  \/ \E r \in Requests, d \in TempNames, ok \in BOOLEAN :
       srv_page_tempdir(r, d, ok)
  \/ \E r \in Requests, ok \in BOOLEAN : srv_pages_done(r, ok)
  \/ \E r \in Requests, ok \in BOOLEAN : srv_zip(r, ok)
  \/ \E r \in Requests, removed \in BOOLEAN : srv_remove_pages(r, removed)
  \/ \E r \in Requests, ok \in BOOLEAN : srv_read(r, ok)
  \/ \E r \in Requests, file_ok \in BOOLEAN, dir_ok \in BOOLEAN :
       srv_unlink(r, file_ok, dir_ok)

SpecServer == InitServer /\ [][NextServer]_vars

\* ------------------------------------------------------------ properties
PageUrls == {chapter.pages[i].url : i \in 1..Len(chapter.pages)}

\* Some pass produced a successful outcome for the page with URL u.
PageSucceeded(u) ==
  \E r \in Range(results1) \cup Range(results2) :
    r.kind = "Ok" /\ r.fetched = Some(u)

HasRetryable(results) ==
  \E i \in 1..Len(results) : results[i].kind = "RequestError"

HasNonRetryable(results) ==
  \E i \in 1..Len(results) : results[i].kind \in {"IoError", "InvalidUrl"}

\* The pages whose first-pass outcome was a retryable failure.
RetrySet ==
  {it \in Range(chapter.pages) :
     \E r \in Range(results1) :
       r.kind = "RequestError" /\ r.fetched = Some(it.url)}

Returned == pc = "returned" /\ pass >= 1

\* C1: download_chapter returns success if and only if every page of the
\* chapter has a successful fetch outcome in the first pass or in the retry
\* pass.
C1_SuccessIffEveryPageFetched ==
  Returned => (result.kind = "Ok" <=> \A u \in PageUrls : PageSucceeded(u))

\* C2: one call of download_chapter runs the batch downloader at most twice:
\* the first pass and, exactly when the first pass produced a retryable
\* failure, one retry pass; a failure of the retry pass is not retried.
C2_AtMostOneRetryPass ==
  /\ pass <= 2
  /\ (pass = 2 => HasRetryable(results1))
  /\ (Returned => (pass = 2 <=> HasRetryable(results1)))
  /\ (pc = "pass2" /\ dpc = "done" => pass = 2)

C2_Witness ==
  Returned /\ pass = 2 /\ HasRetryable(results2)

\* C3: the retry pass is given exactly the descriptors whose first-pass
\* outcome was a retryable failure: no other descriptor is fetched in the
\* retry pass, and none of them is left out.
C3_RetryExactlyTheFailed ==
  /\ (pass = 2 =>
        /\ Range(options.items) = RetrySet
        /\ Len(options.items) = Cardinality(RetrySet))
  /\ \A it \in Range(fetched[2]) :
       /\ it \in RetrySet
       /\ ~\E r \in Range(results1) : r.kind = "Ok" /\ r.fetched = Some(it.url)
  /\ (pass = 2 /\ (dpc = "done" \/ pc = "returned") =>
        /\ Range(fetched[2]) = RetrySet
        /\ Len(fetched[2]) = Cardinality(RetrySet))

C3_Witness ==
  /\ Returned /\ pass = 2
  /\ \E r \in Range(results1) : r.kind = "Ok"
  /\ \E r \in Range(results1) : r.kind = "IoError"
  /\ Len(fetched[2]) >= 1

\* C4: download_chapter never returns success when some page ended the first
\* pass with a failure of a non-retryable kind.
C4_NonRetryableFailureReported ==
  (Returned /\ HasNonRetryable(results1)) => result.kind # "Ok"

\* C5: a batch run returns exactly one outcome per input descriptor, and the
\* outcome at index i belongs to the descriptor at input index i, whatever
\* the order in which the fetches complete.
C5_OneOutcomePerDescriptorInOrder ==
  /\ (dpc = "done" =>
        /\ Len(downloads) = Len(options.items)
        /\ \A i \in 1..Len(downloads) :
             /\ downloads[i].fetched = Some(options.items[i].url)
             /\ (downloads[i].kind = "RequestError" =>
                   downloads[i].item = Some(options.items[i]))
             /\ (downloads[i].kind = "Ok" =>
                   downloads[i].path = Some(file_name(options.items[i]))))
  /\ (dpc = "joining" =>
        \A i \in 1..Len(subdownloads) :
          subdownloads[i].kind # "Pending" =>
            subdownloads[i].fetched = Some(chunk[i].url))

\* A later fetch of the chunk has completed before an earlier one.
C5_Witness ==
  /\ dpc = "joining"
  /\ Len(subdownloads) >= 2
  /\ subdownloads[1].kind = "Pending"
  /\ subdownloads[Len(subdownloads)].kind # "Pending"

\* C6: in a rate-limited run the descriptors are split into consecutive
\* chunks of size N, the last possibly shorter, and no fetch of a chunk
\* starts before every fetch of the chunks before it has completed.
C6_ChunkAfterChunk ==
  (Limited /\ dpc \in {"joining", "sleeping", "done"}) =>
    /\ \A p \in started, q \in 1..Len(options.items) :
         (q - 1) \div NumItems < (p - 1) \div NumItems => q \in completed
    /\ (dpc = "joining" =>
          /\ offset % NumItems = 0
          /\ chunk = SubSeq(options.items, offset + 1,
                            Min(offset + NumItems, Len(options.items))))

C6_Witness ==
  Limited /\ dpc = "joining" /\ offset > 0 /\ inflight # {}

\* C7: in a run with a rate limit of N items per window, at most N fetches
\* are in flight at any moment.
C7_AtMostNInFlight ==
  Limited => Cardinality(inflight) <= NumItems

C7_Witness ==
  /\ Limited
  /\ Cardinality(inflight) = NumItems
  /\ NumItems >= 2
  /\ Len(options.items) > NumItems

\* C8: a rate-limited run over T >= 1 descriptors with N per window sleeps
\* exactly ceil(T/N) - 1 times, each time between the completion of a chunk
\* and the start of the next one, and never after the final chunk.
C8_SleepsBetweenChunks ==
  (Limited /\ Len(options.items) >= 1) =>
    /\ (dpc = "done" => sleeps = CeilDiv(Len(options.items), NumItems) - 1)
    /\ (dpc = "sleeping" =>
          /\ inflight = {}
          /\ started = completed
          /\ rest # <<>>)
    /\ (dpc = "joining" => sleeps = offset \div NumItems)

C8_Witness ==
  Limited /\ dpc = "done" /\ sleeps >= 2

\* C9 as stated: the retry pass runs without a rate-limit cap even when the
\* first pass was rate-limited: the retried descriptors are launched in one
\* wave and the retry pass never sleeps.
C9_RetryWithoutRateLimit ==
  pc = "pass2" =>
    /\ sleeps = 0
    /\ (started # {} => started = 1..Len(options.items))

\* C9, amended: the retry pass runs under the rate-limit policy of the first
\* pass: with a limit of N the retried descriptors are fetched at most N at a
\* time with one sleep between consecutive chunks; they are launched in one
\* wave without a sleep only when the chapter has no rate limit.
C9_RetryKeepsRateLimit ==
  pc = "pass2" =>
    /\ options.limit_speed = chapter.server_speed_limit
    /\ (Limited =>
          /\ Cardinality(inflight) <= NumItems
          /\ (dpc = "done" =>
                sleeps = CeilDiv(Len(options.items), NumItems) - 1))
    /\ (~Limited =>
          /\ sleeps = 0
          /\ (started # {} => started = 1..Len(options.items)))

C9_Witness ==
  pc = "pass2" /\ Limited /\ dpc = "done" /\ sleeps >= 1

\* C10: when download_chapter fails with PagesDownloadError, the error holds
\* exactly one underlying error for every page still failing after the last
\* pass, and none for a page that eventually succeeded.
C10_AggregateHoldsEveryFailingPage ==
  (Returned /\ result.kind = "PagesDownloadError") =>
    LET failing == {u \in PageUrls : ~PageSucceeded(u)}
    IN  /\ {result.sources[i].fetched[1] : i \in 1..Len(result.sources)}
             = failing
        /\ Len(result.sources) = Cardinality(failing)

\* ----------------------------------------------- properties of a fetch unit
UnitDone == unit.phase = "done"

UnitFailedAt(k) == unit.answers[k] # "2xx"

\* C11: a fetch unit tries the primary URL first and each fallback URL, in
\* the listed order, only after every earlier URL has failed; it succeeds
\* with the first URL answering 2xx and, when every URL fails, returns the
\* error of the last URL tried.
C11_FallbackOrder ==
  unit.phase # "none" =>
    /\ unit.tried = [k \in 1..Len(unit.tried) |-> k]
    /\ \A k \in 1..Len(unit.tried) : \A j \in 1..(k - 1) : UnitFailedAt(j)
    /\ (unit.phase = "trying" =>
          /\ unit.idx = Len(unit.tried) + 1
          /\ \A j \in 1..Len(unit.tried) : UnitFailedAt(j))
    /\ (UnitDone /\ unit.result.kind = "Ok" =>
          LET k == Len(unit.tried)
          IN  /\ k >= 1
              /\ ~UnitFailedAt(k)
              /\ (unit.name = None =>
                    unit.result.path[1].stem = unit.urls[k].segment.stem))
    /\ (UnitDone /\ unit.result.kind = "Err" =>
          LET n == Len(unit.urls)
          IN  /\ Len(unit.tried) = n
              /\ \A j \in 1..n : UnitFailedAt(j)
              /\ unit.result.error =
                   Some(UnitError(unit.answers[n], unit.urls[n])))
    /\ (UnitDone => unit.result.kind \in {"Ok", "Err"})

C11_Witness ==
  /\ UnitDone
  /\ unit.result.kind = "Err"
  /\ Len(unit.urls) >= 3
  /\ unit.answers[1] # unit.answers[Len(unit.urls)]

\* The name has no extension before the content type is looked at.
UnitBareName ==
  extension(base_file_name(unit.name, unit.urls[Len(unit.tried)])) = None

UnitSaved == UnitDone /\ unit.result.kind = "Ok"

UnitSavedExt == unit.result.path[1].ext

\* The fixed mapping of the specification: type, subtype, extension.
ExtensionTable ==
  { <<"image", <<"jpeg">>, <<"jpg">> >>, <<"image", <<"png">>, <<"png">> >>,
    <<"image", <<"webp">>, <<"webp">> >>, <<"text", <<"plain">>, <<"txt">> >>,
    <<"text", <<"csv">>, <<"csv">> >>, <<"text", <<"html">>, <<"html">> >>,
    <<"application", <<"pdf">>, <<"pdf">> >>,
    <<"application", <<"json">>, <<"json">> >>,
    <<"application", <<"zip">>, <<"zip">> >> }

InTable(ct) ==
  /\ ct # None
  /\ \E row \in ExtensionTable : row[1] = ct[1].type /\ row[2] = ct[1].subtype

TableExt(ct) ==
  (CHOOSE row \in ExtensionTable :
     row[1] = ct[1].type /\ row[2] = ct[1].subtype)[3]

\* C16 as stated: a name without an extension gets the extension of the fixed
\* mapping, and no extension for every content type outside the mapping or a
\* missing content type; a name with an extension is not changed.
C16_FixedMappingOnly ==
  UnitSaved =>
    LET n == base_file_name(unit.name, unit.urls[Len(unit.tried)])
    IN  /\ (~UnitBareName => unit.result.path = Some(n))
        /\ (UnitBareName /\ InTable(unit.ctype) =>
              UnitSavedExt = Some(TableExt(unit.ctype)))
        /\ (UnitBareName /\ ~InTable(unit.ctype) => UnitSavedExt = None)

\* C16, amended: as stated for the content types of the mapping and for the
\* types text/*, application/* and the non-image types outside it; for every
\* other image/* content type the subtype itself is appended, with "jpeg"
\* replaced by "jpg" in it (image/gif -> gif).
C16_MappingAndAnyImage ==
  UnitSaved =>
    LET n == base_file_name(unit.name, unit.urls[Len(unit.tried)])
        isImage == /\ unit.ctype # None
                   /\ unit.ctype[1].parses
                   /\ unit.ctype[1].type = "image"
    IN  /\ unit.result.path[1].stem = n.stem
        /\ (~UnitBareName => unit.result.path = Some(n))
        /\ (UnitBareName /\ InTable(unit.ctype) =>
              UnitSavedExt = Some(TableExt(unit.ctype)))
        /\ (UnitBareName /\ ~InTable(unit.ctype) /\ isImage =>
              UnitSavedExt =
                Some([i \in 1..Len(unit.ctype[1].subtype) |->
                        IF unit.ctype[1].subtype[i] = "jpeg"
                          THEN "jpg" ELSE unit.ctype[1].subtype[i]]))
        /\ (UnitBareName /\ ~InTable(unit.ctype) /\ ~isImage =>
              UnitSavedExt = None)

C16_Witness ==
  /\ UnitSaved
  /\ UnitBareName
  /\ unit.ctype = Some(Mime("image", <<"gif">>))
  /\ UnitSavedExt = Some(<<"gif">>)


\* --------------------------------------------------- properties of get_chapter
\* The domain matches no arm of the dispatch.
Unsupported(u) ==
  /\ u.wellformed
  /\ u.host # None
  /\ u.host[1] \notin ExactDomains
  /\ ~contains(u.host[1], "nettruyen")

\* C13: a well-formed URL whose domain matches no adapter gives
\* SiteNotSupported carrying that domain, a malformed URL gives InvalidUrl;
\* neither panics nor makes a network request.
C13_UnsupportedOrMalformedUrl ==
  cpc # "resolve" =>
    /\ (Unsupported(url) =>
          /\ cpc = "returned"
          /\ cresult.kind = "SiteNotSupported"
          /\ cresult.domain = Some(url.host[1])
          /\ requests = 0)
    /\ (~url.wellformed =>
          /\ cpc = "returned"
          /\ cresult.kind = "InvalidUrl"
          /\ requests = 0)

C13_Witness ==
  /\ cpc = "returned"
  /\ url.host = Some(<<"www.", "mangapark.net">>)
  /\ cresult.kind = "SiteNotSupported"
  /\ cresult.domain = Some(<<"www.", "mangapark.net">>)

\* The page the adapter reads has every part it expects.
MarkupComplete ==
  /\ site.title # "absent"
  /\ site.list
  /\ \A i \in 1..Len(site.imgs) : site.imgs[i].src # None

\* C20: when the fetched page lacks the expected title, label or page-list
\* markup, the adapter returns an error: it never panics, and it never returns
\* a chapter that leaves the missing parts out.
C20_MissingMarkupIsAnError ==
  /\ cpc # "panicked"
  /\ (cpc = "resolved" =>
        /\ MarkupComplete
        /\ Len(chapter.pages) = Len(site.imgs))


\* -------------------------------------------------- properties of download_one
\* The chapter cannot be resolved: the URL does not parse, has no domain, its
\* domain has no adapter, or the site does not answer the adapter.
ResolutionFails ==
  \/ ~url.wellformed
  \/ url.host = None
  \/ Unsupported(url)
  \/ ~site.reachable

\* C12: when the chapter cannot be resolved the error is returned at once: no
\* directory is made, no page fetch is started, nothing is written.
C12_ResolveFailureStopsAtOnce ==
  (cpc # "resolve" /\ ResolutionFails) =>
    /\ cpc = "returned"
    /\ cresult.kind \in {"InvalidUrl", "SiteNotSupported", "RequestError"}
    /\ dirs = {}
    /\ pc = "none"
    /\ pass = 0
    /\ started = {}
    /\ \A f \in DOMAIN files : files[f] = "absent"
    /\ archive = NoArchive

C12_Witness ==
  /\ cpc = "returned"
  /\ url.host = Some(<<"truyenqq.com.vn">>)
  /\ ~site.reachable
  /\ cresult.kind = "RequestError"
  /\ dirs = {}
  /\ started = {}

\* What a successful run without archive leaves in the directory: under every
\* file name of the chapter the complete body.
ChapterFiles == {<<f, "complete">> : f \in FileNames(chapter)}

CbzOk == cbz /\ cpc = "returned" /\ cresult.kind = "Ok"

PlainOk == ~cbz /\ cpc = "returned" /\ cresult.kind = "Ok"

C15_ArchiveFailureKeepsPages ==
  /\ (cpc = "returned" /\ archive.exists /\ ~archive.finished =>
        cresult.kind = "IoError")
  /\ (cbz /\ cpc = "returned" /\ cresult.kind = "IoError"
        /\ cresult.at \in {"parent", "zip"} =>
        /\ "tempdir" \in dirs
        /\ {<<f, files[f]>> : f \in DirEntries} = ChapterFiles)

C15_Witness ==
  /\ cbz
  /\ cpc = "returned"
  /\ cresult = IoError("zip")
  /\ archive.entries # {}
  /\ ~archive.finished
  /\ "tempdir" \in dirs
  /\ Cardinality(DirEntries) >= 2

\* C17: the file names of the fetches of one chapter download are pairwise
\* distinct: no two running fetches write to the same path.
C17_DistinctFileNames ==
  \A p \in inflight, q \in inflight :
    p # q => file_name(chunk[p - offset]) # file_name(chunk[q - offset])

\* C18: when download_chapter returns success for a chapter of P pages, the
\* directory holds exactly P page files, every one complete.
C18_SuccessMeansAllFiles ==
  PlainOk =>
    /\ Cardinality(DirEntries) = Len(chapter.pages)
    /\ \A f \in DirEntries : files[f] = "complete"

\* C19: a second call of download_chapter on the same chapter and directory
\* does not fail because the directory or the files exist, leaves the same
\* set of file names as the first call, and when it succeeds the same files.
C19_SecondCallSameFiles ==
  (~cbz /\ calls >= 2 /\ pc = "returned") =>
    /\ result.kind # "PathError"
    /\ DirEntries = {f \in DOMAIN files1 : files1[f] # "absent"}
    /\ (result.kind = "Ok" => files = files1)

C19_Witness ==
  /\ ~cbz
  /\ calls = 2
  /\ pc = "returned"
  /\ result.kind = "Ok"
  /\ Len(chapter.pages) >= 2
  /\ files = files1


\* ------------------------------------------- properties of the retry pass, 2
\* C21: the retry pass starts only after every fetch of the first pass has
\* completed and after the backoff wait that follows the first pass: at the
\* step that starts it no fetch is running.
C21_RetryAfterFirstPassAndBackoff ==
  [][(pass' = 2 /\ pass # 2) =>
       /\ pc = "backoff"
       /\ dpc = "idle"
       /\ inflight = {}
       /\ Len(results1) = Len(chapter.pages)
       /\ \A i \in 1..Len(results1) : results1[i].kind # "Pending"]_vars

C21_Witness ==
  /\ pass = 2
  /\ dpc = "joining"
  /\ inflight # {}
  /\ Len(results1) >= 2
  /\ \A i \in 1..Len(results1) : results1[i].kind # "Pending"

\* C22: every failure outcome of a fetch, whatever its classification,
\* carries the descriptor that failed.
C22_FailureCarriesDescriptor ==
  \A r \in Range(downloads) \cup Range(subdownloads) :
    r.kind \notin {"Ok", "Pending"} =>
      /\ r.item # None
      /\ r.item[1].url = r.fetched[1]


\* The outcome of the completed fetch at position p of the running call.
Outcome(p) ==
  IF p > offset /\ p - offset <= Len(subdownloads)
    THEN subdownloads[p - offset]
    ELSE downloads[p]

\* C26: a fetch whose outcome is a failure leaves no file at its path.
C26_FailureLeavesNoFile ==
  \A p \in completed :
    Outcome(p).kind # "Ok" => files[file_name(options.items[p])] = "absent"

\* C30: a batch run never aborts, whatever the descriptor list and the
\* rate-limit policy, one of 0 items per window included.
C30_BatchRunNeverAborts == dpc # "panicked"

OwnAdapter(d) ==
  CASE d = <<"mangapark.net">> -> "mangapark"
    [] d = <<"mangadex.org">> -> "mangadex"
    [] d \in {<<"truyenqq.com.vn">>, <<"truyenqqne.com">>} -> "truyenqq"
    [] d = <<"blogtruyen.vn">> -> "blogtruyen"
    [] d = <<"www.toptruyen.live">> -> "toptruyen"
    [] d = <<"truyentuan.com">> -> "truyentranhtuan"

\* The adapter the claim assigns to a domain: the listed one first, then
\* Nettruyen for a domain containing "nettruyen", else none.
ClaimedAdapter(d) ==
  IF d \in ExactDomains THEN OwnAdapter(d)
  ELSE IF contains(d, "nettruyen") THEN "nettruyen"
  ELSE "none"

\* What the adapter of that name gives on the page served.
FromUrl(adapter, u, html) ==
  CASE adapter = "mangapark" -> mangapark_from_url(html)
    [] adapter = "mangadex" -> mangadex_from_url(u, html)
    [] adapter \in {"truyenqq", "blogtruyen", "toptruyen"} ->
         unwrap_src_from_url(html)
    [] adapter = "truyentranhtuan" -> truyentranhtuan_from_url(html)
    [] adapter = "nettruyen" -> nettruyen_from_url(html)

ClaimedResult(u, html) ==
  IF u.host = None THEN InvalidUrl
  ELSE IF ClaimedAdapter(u.host[1]) = "none" THEN SiteNotSupported(u.host[1])
  ELSE FromUrl(ClaimedAdapter(u.host[1]), u, html)

\* C24: the adapter is chosen by the domain of the URL alone: a listed domain
\* gets its own adapter, any other domain containing "nettruyen" gets the
\* Nettruyen adapter, and a URL without domain gives InvalidUrl, not
\* SiteNotSupported.
C24_DispatchByDomain ==
  (cpc # "resolve" /\ url.wellformed) =>
    LET r == ClaimedResult(url, site)
    IN  /\ requests = r.requests
        /\ (r.kind = "Ok" =>
              /\ cpc = "resolved"
              /\ chapter.pages = r.pages
              /\ chapter.manga = r.manga)
        /\ (r.kind = "Err" =>
              /\ cpc = "returned"
              /\ cresult.kind = r.error
              /\ cresult.domain = r.domain)
        /\ (r.kind = "Panic" => cpc = "panicked")
        /\ (url.host = None => cresult.kind = "InvalidUrl")

C24_Witness ==
  /\ cpc = "resolved"
  /\ url.host = Some(<<"www.", "nettruyen", "us.com">>)
  /\ site.list
  /\ Len(site.imgs) = 2
  /\ site.imgs[1].src = None
  /\ Len(chapter.pages) = 1
  /\ chapter.pages[1].name = Some(<<"page", 1>>)


\* ----------------------------------------------------- properties of the log
\* The fetches completed since download_chapter was entered.
TotalCompleted ==
  (IF pass = 2 THEN Len(results1) ELSE 0) + Cardinality(completed)

\* The log event that tells the outcome r of the fetch of url u.
TellsOutcome(ev, u, r) ==
  /\ ev.url = u
  /\ IF r.kind = "Ok"
       THEN ev.level = "info" /\ ev.path = r.path
       ELSE ev.level = "error" /\ ev.error = r.kind

\* C23: one log event is written per completed fetch, the path on success and
\* the error on failure, and the outcome handed to join_all is the one the
\* fetch produced.
C23_OneLogEventPerFetch ==
  /\ BagCardinality(log) = TotalCompleted
  /\ \A p \in completed :
       /\ Outcome(p).kind # "Pending"
       /\ Outcome(p).fetched = Some(options.items[p].url)
       /\ \E ev \in BagToSet(log) :
            TellsOutcome(ev, options.items[p].url, Outcome(p))
  /\ (pass = 2 =>
        \A i \in 1..Len(results1) :
          \E ev \in BagToSet(log) :
            TellsOutcome(ev, chapter.pages[i].url, results1[i]))

C23_Witness ==
  /\ pc = "returned"
  /\ BagCardinality(log) >= 3
  /\ \E ev \in BagToSet(log) : ev.level = "info"
  /\ \E ev \in BagToSet(log) : ev.level = "error" /\ ev.error = "IoError"


\* ---------------------------------------------- properties of CLI batch mode
\* The URLs in the order the claim gives: file order, reversed with --rev.
ClaimedOrder ==
  IF batch.reverse
    THEN [i \in 1..Len(batch.lines) |-> batch.lines[Len(batch.lines) + 1 - i]]
    ELSE batch.lines

\* The paths of the URLs among the first n attempted whose call succeeded.
RECURSIVE SucceededPaths(_)
SucceededPaths(n) ==
  IF n = 0 THEN <<>>
  ELSE SucceededPaths(n - 1)
         \o (IF batch.outcomes[n] THEN <<<<"path", batch.attempted[n]>>>>
             ELSE <<>>)

\* C25: the URLs are processed one after another in file order (reversed with
\* --rev); without --continue the first failing URL ends the run; with
\* --continue every URL is attempted; the downloaded paths are those of the
\* chapters that succeeded, in processing order.
C25_BatchInOrder ==
  /\ Cardinality(batch.running) <= 1
  /\ Len(batch.attempted) <= Len(ClaimedOrder)
  /\ batch.attempted = SubSeq(ClaimedOrder, 1, Len(batch.attempted))
  /\ Len(batch.outcomes) = Len(batch.attempted) - Cardinality(batch.running)
  /\ (~batch.ignore_error =>
        /\ \A i \in 1..Len(batch.outcomes) :
             ~batch.outcomes[i] => i = Len(batch.attempted)
        /\ (\E i \in 1..Len(batch.outcomes) : ~batch.outcomes[i]) =>
             batch.pc = "done" /\ batch.result = "Err")
  /\ (batch.ignore_error /\ batch.pc \in {"make_cbz", "done"} =>
        batch.attempted = ClaimedOrder)
  /\ batch.downloaded_paths = SucceededPaths(Len(batch.outcomes))
  /\ (batch.made # None => batch.made = Some(batch.downloaded_paths))

C25_Witness ==
  /\ batch.pc = "done"
  /\ batch.ignore_error
  /\ batch.reverse
  /\ batch.attempted = <<3, 2, 1>>
  /\ batch.outcomes = <<TRUE, FALSE, TRUE>>
  /\ batch.downloaded_paths = <<<<"path", 3>>, <<"path", 1>>>>


\* ------------------------------------------ properties of the archive path
\* C27: the default archive path is the full name of the chapter followed by
\* .cbz, nothing of the name removed, so chapters with different full names
\* get different archive paths.
C27_ArchivePathKeepsName ==
  names.pc = "done" =>
    LET full_a == generate_chapter_full_name(names.a)
        full_b == generate_chapter_full_name(names.b)
    IN  /\ names.path_a = Some(FileName(full_a, Some(<<"cbz">>)))
        /\ (full_a # full_b => names.path_a # names.path_b)


\* ------------------------------------------------- properties of the server
\* The directories a request is working in.
UsedDirs(r) ==
  (IF server.req[r].pc \in {"cbz", "pages", "zip", "cleanup", "read", "unlink"}
     THEN {server.req[r].zipdir} ELSE {})
    \cup (IF server.req[r].pc \in {"pages", "zip", "cleanup"}
            THEN {server.req[r].pagedir} ELSE {})

\* C28: two requests handled concurrently never write to the same page
\* directory or the same archive path, and what one request removes is never
\* something the other still uses: the directories and files a request works
\* with stay in place until it removes them itself.
C28_RequestsShareNothing ==
  /\ \A r1 \in Requests, r2 \in Requests :
       r1 # r2 => UsedDirs(r1) \cap UsedDirs(r2) = {}
  /\ \A r \in Requests :
       /\ UsedDirs(r) \subseteq server.dirs
       /\ (server.req[r].pc \in {"zip", "cleanup"} =>
             File(server.req[r].pagedir, "pages") \in server.files)
       /\ (server.req[r].pc \in {"cleanup", "read", "unlink"} =>
             File(server.req[r].zipdir, server.req[r].uuid) \in server.files)

C28_Witness ==
  /\ server.req[1].pc = "zip"
  /\ server.req[2].pc = "unlink"
  /\ server.req[1].uuid = server.req[2].uuid
  /\ Cardinality(UsedDirs(1) \cup UsedDirs(2)) = 3

====
